---------------------------- MODULE Spec2Model ----------------------------
(***************************************************************************)
(* A model of the FuncGenFoil airfoil-generation components:               *)
(*                                                                         *)
(*   - PointDiTDiffusion (model/discrete_time_diffusion.py): the EMA       *)
(*     shadow copy of the parameters and the four reverse-sampling loops   *)
(*     (specification Spec);                                               *)
(*   - CSTLayer / Fit_airfoil (dataset/parsec_direct_n15.py): the CST fit  *)
(*     and the PARSEC-N15 feature extraction (specification SpecFit).      *)
(*                                                                         *)
(* Floating point is modelled in fixed point: a real v is the integer      *)
(* v * SC, products and quotients are rescaled and truncated.  A tensor is *)
(* tracked by one of its entries (every operation of the sampling loops is *)
(* elementwise); its leading dimension is batch_size.                      *)
(***************************************************************************)
EXTENDS Integers, Sequences, FiniteSets, TLC

VARIABLES
    \* ---- PointDiTDiffusion: persistent state of the object
    model,            \* live parameters (self.model), one weight
    ema_model,        \* shadow parameters (self.ema_model)
    step,             \* self.step
    ema_start,        \* self.ema_start
    ema_update_rate,  \* self.ema_update_rate
    buffers,          \* the registered schedule buffers
    ddim_timesteps,   \* self.ddim_timesteps
    ddim_eta,         \* self.ddim_eta
    ema_branch,       \* which branch the last update_ema call took
    \* ---- the sampling call in progress
    op,               \* "idle" or the name of the running sampling method
    pc,               \* "idle", "loop", "done", "error"
    args,             \* the call's arguments
    x,                \* the local tensor x
    i,                \* the loop variable (t of sample, i of sample_ddim)
    ans,              \* the list a *_sequence method accumulates
    ret,              \* the value returned (None until the call returns)
    trace,            \* what the call did: draws, denoiser calls, indices
    last,             \* what sample / sample_diffusion_sequence last returned
    \* ---- Fit_airfoil
    data,             \* the input point sequence, rows <<x, y>>
    fpc,              \* "new", "done", "error"
    parsec_features,  \* the feature record, None until computed
    fit               \* intermediate values of get_parsec_n15

objVars  == <<model, ema_model, step, ema_start, ema_update_rate, buffers,
              ddim_timesteps, ddim_eta>>
callVars == <<op, pc, args, x, i, ans, ret, trace, last>>
fitVars  == <<data, fpc, parsec_features, fit>>
vars     == <<objVars, ema_branch, callVars, fitVars>>

\* An optional value is the empty tuple (None) or the 1-tuple of the value.
None == <<>>
Some(v) == <<v>>

\* ------------------------------------------------------------ fixed point

\* The fixed-point unit: v is stored as v * SC.
SC == 10 * 10 * 10

Abs(a) == IF a < 0 THEN -a ELSE a
Sgn(a) == IF a < 0 THEN -1 ELSE IF a > 0 THEN 1 ELSE 0

\* Products and quotients in the unit s, rounded toward zero (the rounding of
\* the program's floats is symmetric in the sign too).
FMul(a, b, s) == LET p == a * b IN IF p >= 0 THEN p \div s ELSE -((-p) \div s)
FDiv(a, b, s) == Sgn(a) * Sgn(b) * ((Abs(a) * s) \div Abs(b))

Mul(a, b) == FMul(a, b, SC)
Div(a, b) == FDiv(a, b, SC)

RECURSIVE IsqrtFrom(_, _)
IsqrtFrom(n, r) == IF r * r <= n THEN r ELSE IsqrtFrom(n, (r + n \div r) \div 2)

\* The integer square root (Newton's iteration from above).
Isqrt(n) == IF n <= 0 THEN 0 ELSE IsqrtFrom(n, IF n > 46340 THEN 46340 ELSE n)

\* sqrt of a fixed-point value; a negative argument (NaN in the program) is
\* not a number the model computes with.
Sqrt(a) == IF a < 0 THEN "NaN" ELSE Isqrt(a * SC)

Clamp(v, lo, hi) == IF v < lo THEN lo ELSE IF v > hi THEN hi ELSE v

\* ------------------------------------------------------------------- EMA

\* ema_decay = 0.9999, as DECAY_NUM / DECAY_DEN.
DECAY_NUM == 9999
DECAY_DEN == 10000

\* EMA.update_average
\* (old is a parameter tensor's data, never None: that branch is not taken)
update_average(old, new) ==
    (old * DECAY_NUM + (DECAY_DEN - DECAY_NUM) * new) \div DECAY_DEN

\* EMA.update_model_average: every shadow parameter is replaced.
update_model_average(ema, current) == update_average(ema, current)

\* ------------------------------------------------------------- schedules

\* np.linspace(low, high, T)
generate_linear_schedule(T, low, high) ==
    [k \in 1..T |-> IF T = 1 THEN low ELSE low + ((k - 1) * (high - low)) \div (T - 1)]

RECURSIVE CumProd(_, _)
CumProd(s, k) == IF k = 1 THEN s[1] ELSE Mul(CumProd(s, k - 1), s[k])

\* PointDiTDiffusion.__init__: the buffers registered from betas.
MakeBuffers(betas) ==
    LET T      == Len(betas)
        alphas == [k \in 1..T |-> SC - betas[k]]
        acp    == [k \in 1..T |-> CumProd(alphas, k)]
    IN  [ betas                         |-> betas,
          alphas                        |-> alphas,
          alphas_cumprod                |-> acp,
          sqrt_alphas_cumprod           |-> [k \in 1..T |-> Sqrt(acp[k])],
          sqrt_one_minus_alphas_cumprod |-> [k \in 1..T |-> Sqrt(SC - acp[k])],
          reciprocal_sqrt_alphas        |-> [k \in 1..T |-> Sqrt(Div(SC, alphas[k]))],
          remove_noise_coeff            |-> [k \in 1..T |-> Div(betas[k], Sqrt(SC - acp[k]))],
          sigma                         |-> [k \in 1..T |-> Sqrt(betas[k])] ]

\* self.num_timesteps = len(betas)
num_timesteps == Len(buffers.betas)

\* extract(a, t, x_shape): a.gather(-1, t).  The tables are 0-indexed in the
\* program; an index outside 0..len(a)-1 is an error of gather.
InRange(a, t) == t >= 0 /\ t < Len(a)
extract(a, t) == a[t + 1]

\* ---------------------------------------------------------------- bounds

MaxT        == 3   \* schedule lengths 1..MaxT
MaxBatch    == 2   \* batch sizes 1..MaxBatch, conditions of length 0..MaxBatch
MaxStep     == 5   \* update_ema calls in SpecEma
MaxEmaStart == 3   \* warm-up counts 0..MaxEmaStart
MaxRate     == 2   \* update rates 1..MaxRate
MaxStepCall == 1   \* update_ema calls interleaved with sampling in Spec

\* Values of the live weight (training moves it between them).
ParamVals == {0, SC}
\* Values of one entry of a standard-normal draw.
NoiseVals == {-SC, SC}
\* Values of self.ddim_eta.
EtaVals   == {0, SC}
\* (low, high) of the linear schedule.
ScheduleEnds == {<<100, 500>>}

SamplingOps == {"sample", "sample_diffusion_sequence", "sample_ddim", "sample_ddim_sequence"}

\* ------------------------------------------------------- initial states

NoTrace == [randn |-> 0, net |-> 0, iters |-> 0, ts |-> <<>>, prevs |-> <<>>,
            reps |-> <<>>, noised |-> <<>>, draws |-> <<>>]
NoArgs  == [batch_size |-> 0, y |-> None, use_ema |-> TRUE, clip_denoised |-> TRUE,
            gt |-> None, fix_indices |-> None]

CallIdle ==
    /\ op = "idle" /\ pc = "idle" /\ args = NoArgs /\ x = 0 /\ i = 0
    /\ ans = <<>> /\ ret = None /\ trace = NoTrace /\ last = None

FitIdle ==
    /\ data = <<>> /\ fpc = "idle" /\ parsec_features = None /\ fit = [error |-> ""]

\* PointDiTDiffusion.__init__
InitObj(weights, starts, rates, Ts, Ss) ==
    /\ model \in weights
    /\ ema_model = model
    /\ step = 0
    /\ ema_start \in starts
    /\ ema_update_rate \in rates
    /\ \E T \in Ts, e \in ScheduleEnds :
          buffers = MakeBuffers(generate_linear_schedule(T, e[1], e[2]))
    /\ ddim_timesteps \in Ss
    /\ ddim_eta \in EtaVals
    /\ ema_branch = "none"

\* ---------------------------------------------------- training, update_ema

\* An optimizer step of the external training loop moves the live weight.
Train ==
    /\ op = "idle"
    /\ \E w \in ParamVals \ {model} : model' = w
    /\ UNCHANGED <<ema_model, step, ema_start, ema_update_rate, buffers,
                   ddim_timesteps, ddim_eta, ema_branch, fitVars>>
    /\ UNCHANGED <<op, pc, args, x, i, ans, ret, trace>> /\ last' = None

\* update_ema with the warm-up test off by one (step <= ema_start).
update_ema_WarmupInclusive(cap) ==
    /\ op = "idle"
    /\ step < cap
    /\ step' = step + 1
    /\ IF step' % ema_update_rate = 0
       THEN IF step' <= ema_start
            THEN /\ ema_model' = model
                 /\ ema_branch' = "load_state_dict"
            ELSE /\ ema_model' = update_model_average(ema_model, model)
                 /\ ema_branch' = "update_model_average"
       ELSE /\ ema_model' = ema_model
            /\ ema_branch' = "skip"
    /\ UNCHANGED <<model, ema_start, ema_update_rate, buffers, ddim_timesteps,
                   ddim_eta, fitVars>>
    /\ UNCHANGED <<op, pc, args, x, i, ans, ret, trace>> /\ last' = None

\* PointDiTDiffusion.update_ema (at most cap calls)
update_ema(cap) ==
    /\ op = "idle"
    /\ step < cap
    /\ step' = step + 1
    /\ IF step' % ema_update_rate = 0
       THEN IF step' < ema_start
            THEN /\ ema_model' = model
                 /\ ema_branch' = "load_state_dict"
            ELSE /\ ema_model' = update_model_average(ema_model, model)
                 /\ ema_branch' = "update_model_average"
       ELSE /\ ema_model' = ema_model
            /\ ema_branch' = "skip"
    /\ UNCHANGED <<model, ema_start, ema_update_rate, buffers, ddim_timesteps,
                   ddim_eta, fitVars>>
    /\ UNCHANGED <<op, pc, args, x, i, ans, ret, trace>> /\ last' = None

UpdateEma == update_ema(MaxStep)

InitEma ==
    /\ InitObj(ParamVals, 0..MaxEmaStart, 1..MaxRate, {1}, {1})
    /\ ddim_eta = 0
    /\ CallIdle
    /\ FitIdle

NextEma == Train \/ UpdateEma

\* The EMA bookkeeping alone: training steps and update_ema calls.
SpecEma == InitEma /\ [][NextEma]_vars

\* ----------------------------------------------------- denoiser, helpers

\* The caller-supplied noise-prediction network, (x, t, y) -> predicted noise:
\* a stand-in that depends on its weight w and on all three inputs.
Net(w, xx, t, y) ==
    LET cond == IF y = None THEN 0 ELSE Len(y[1])
    IN  ((((w + xx) \div SC + t + cond) % 3) - 1) * SC

\* self.ema_model or self.model, by use_ema
Weight(use_ema) == IF use_ema THEN ema_model ELSE model

\* PointDiTDiffusion.remove_noise
remove_noise(xx, t, y, use_ema) ==
    Mul(xx - Mul(extract(buffers.remove_noise_coeff, t), Net(Weight(use_ema), xx, t, y)),
        extract(buffers.reciprocal_sqrt_alphas, t))

\* PointDiTDiffusion.perturb_x
perturb_x(xx, t, noise) ==
    Mul(extract(buffers.sqrt_alphas_cumprod, t), xx)
    + Mul(extract(buffers.sqrt_one_minus_alphas_cumprod, t), noise)

\* The condition test with < in place of !=.
BadCondition_OnlyShorter(a) == a.y # None /\ a.batch_size > Len(a.y[1])

\* The test every sampling method starts with:
\* y is not None and batch_size != len(y)
BadCondition(a) == a.y # None /\ a.batch_size # Len(a.y[1])

\* Conditions: None, or a sequence of 1..MaxBatch condition rows.
Conditions == {None} \cup {Some([k \in 1..n |-> 1]) : n \in 1..MaxBatch}

AncestralArgs ==
    { [batch_size |-> b, y |-> yy, use_ema |-> ue, clip_denoised |-> TRUE,
       gt |-> None, fix_indices |-> None] :
         b \in 1..MaxBatch, yy \in Conditions, ue \in BOOLEAN }

\* One entry of gt; fix_indices is None or says whether the tracked entry is
\* one of the fixed indices.
Repaints ==
    { <<None, None>>, <<None, Some(TRUE)>>,
      <<Some(SC \div 2), Some(TRUE)>>, <<Some(SC \div 2), Some(FALSE)>> }

DdimArgs ==
    { [batch_size |-> b, y |-> yy, use_ema |-> ue, clip_denoised |-> cl,
       gt |-> r[1], fix_indices |-> r[2]] :
         b \in 1..MaxBatch, yy \in Conditions, ue \in BOOLEAN, cl \in BOOLEAN,
         r \in Repaints }

DdimSeqArgs == { a \in DdimArgs : a.gt = None /\ a.fix_indices = None }

\* The call raises before anything else is done.
Raise(name, a) ==
    /\ op' = name /\ pc' = "error" /\ args' = a
    /\ UNCHANGED <<x, i, ans, ret, trace>>

\* ------------------------------------------------------------- sample

\* sample: the condition test, the initial draw (lines 321-324)
sample_begin ==
    /\ op = "idle"
    /\ \E a \in AncestralArgs :
         IF BadCondition(a)
         THEN Raise("sample", a)
         ELSE \E n \in NoiseVals :
                /\ op' = "sample" /\ pc' = "loop" /\ args' = a
                /\ x' = n
                /\ i' = num_timesteps - 1
                /\ trace' = [NoTrace EXCEPT !.randn = 1, !.draws = <<n>>]
                /\ UNCHANGED <<ans, ret>>
    /\ last' = None
    /\ UNCHANGED <<objVars, ema_branch, fitVars>>

\* The body of the ancestral loop for t = i (lines 326-331): the state after
\* remove_noise, plus sigma[t] * n when t > 0.
AncestralStep(xx, t, a, n) ==
    LET x1 == remove_noise(xx, t, a.y, a.use_ema)
    IN  IF t > 0 THEN x1 + Mul(extract(buffers.sigma, t), n) ELSE x1

\* What one iteration of an ancestral loop records.
AncestralTrace(t, n) ==
    [trace EXCEPT !.net = @ + 1, !.iters = @ + 1, !.ts = Append(@, t),
                  !.noised = Append(@, t > 0),
                  !.randn = IF t > 0 THEN @ + 1 ELSE @,
                  !.draws = IF t > 0 THEN Append(@, n) ELSE @]

\* sample_step with the noise scaled in place in the sigma buffer.
sample_step_InPlaceSigma ==
    /\ op = "sample" /\ pc = "loop" /\ i >= 0
    /\ \E n \in (IF i > 0 THEN NoiseVals ELSE {0}) :
         /\ x' = AncestralStep(x, i, args, n)
         /\ trace' = AncestralTrace(i, n)
         /\ buffers' = [buffers EXCEPT !.sigma[i + 1] = Mul(@, n)]
    /\ i' = i - 1
    /\ UNCHANGED <<op, pc, args, ans, ret, last, fitVars, ema_branch>>
    /\ UNCHANGED <<model, ema_model, step, ema_start, ema_update_rate,
                   ddim_timesteps, ddim_eta>>

\* sample: one iteration of the loop
sample_step ==
    /\ op = "sample" /\ pc = "loop" /\ i >= 0
    /\ \E n \in (IF i > 0 THEN NoiseVals ELSE {0}) :
         /\ x' = AncestralStep(x, i, args, n)
         /\ trace' = AncestralTrace(i, n)
    /\ i' = i - 1
    /\ UNCHANGED <<op, pc, args, ans, ret, last, objVars, ema_branch, fitVars>>

\* sample: return x (line 333)
sample_return ==
    /\ op = "sample" /\ pc = "loop" /\ i < 0
    /\ ret' = Some(x)
    /\ pc' = "done"
    /\ UNCHANGED <<op, args, x, i, ans, trace, last, objVars, ema_branch, fitVars>>

\* ------------------------------------------- sample_diffusion_sequence

\* sample_diffusion_sequence: the condition test, the initial draw, the list
\* (lines 337-341)
sequence_begin ==
    /\ op = "idle"
    /\ \E a \in (IF last = None THEN AncestralArgs ELSE {last[1].args}) :
         IF BadCondition(a)
         THEN Raise("sample_diffusion_sequence", a)
         ELSE \E n \in NoiseVals :
                /\ op' = "sample_diffusion_sequence" /\ pc' = "loop" /\ args' = a
                /\ x' = n
                /\ ans' = <<n>>
                /\ i' = num_timesteps - 1
                /\ trace' = [NoTrace EXCEPT !.randn = 1, !.draws = <<n>>]
                /\ UNCHANGED <<ret>>
    /\ UNCHANGED <<last, objVars, ema_branch, fitVars>>

\* sequence_step appending the state before the step instead of after it.
sequence_step_AppendsOld ==
    /\ op = "sample_diffusion_sequence" /\ pc = "loop" /\ i >= 0
    /\ \E n \in (IF i > 0 THEN NoiseVals ELSE {0}) :
         /\ x' = AncestralStep(x, i, args, n)
         /\ trace' = AncestralTrace(i, n)
    /\ ans' = Append(ans, x)
    /\ i' = i - 1
    /\ UNCHANGED <<op, pc, args, ret, last, objVars, ema_branch, fitVars>>

\* sample_diffusion_sequence: one iteration of the loop (lines 343-350)
sequence_step ==
    /\ op = "sample_diffusion_sequence" /\ pc = "loop" /\ i >= 0
    /\ \E n \in (IF i > 0 THEN NoiseVals ELSE {0}) :
         /\ x' = AncestralStep(x, i, args, n)
         /\ trace' = AncestralTrace(i, n)
    /\ ans' = Append(ans, x')
    /\ i' = i - 1
    /\ UNCHANGED <<op, pc, args, ret, last, objVars, ema_branch, fitVars>>

\* sample_diffusion_sequence: return diffusion_sequence (line 352)
sequence_return ==
    /\ op = "sample_diffusion_sequence" /\ pc = "loop" /\ i < 0
    /\ ret' = Some(ans)
    /\ pc' = "done"
    /\ UNCHANGED <<op, args, x, i, ans, trace, last, objVars, ema_branch, fitVars>>

\* ---------------------------------------------------------------- DDIM

\* c = self.num_timesteps // ddim_timesteps
ddim_c == num_timesteps \div ddim_timesteps

\* np.asarray(list(range(0, self.num_timesteps, c))) + 1
ddim_timestep_seq ==
    [k \in 1..((num_timesteps + ddim_c - 1) \div ddim_c) |-> (k - 1) * ddim_c + 1]

\* np.append(np.array([0]), ddim_timestep_seq[:-1])
ddim_timestep_prev_seq ==
    <<0>> \o SubSeq(ddim_timestep_seq, 1, Len(ddim_timestep_seq) - 1)

\* Steps 1 and 3-6 of the DDIM iteration (lines 199-234), given the predicted
\* noise pred_noise and the draw n of torch.randn_like(x).
DdimUpdate(xx, t, prev_t, pred_noise, n, clip_denoised) ==
    LET alpha_cumprod_t      == extract(buffers.alphas_cumprod, t)
        alpha_cumprod_t_prev == extract(buffers.alphas_cumprod, prev_t)
        raw_x0   == Div(xx - Mul(Sqrt(SC - alpha_cumprod_t), pred_noise),
                        Sqrt(alpha_cumprod_t))
        pred_x0  == IF clip_denoised THEN Clamp(raw_x0, -SC, SC) ELSE raw_x0
        sigmas_t == Mul(ddim_eta,
                        Sqrt(Mul(Div(SC - alpha_cumprod_t_prev, SC - alpha_cumprod_t),
                                 SC - Div(alpha_cumprod_t, alpha_cumprod_t_prev))))
        pred_dir_xt == Mul(Sqrt(SC - alpha_cumprod_t_prev - Mul(sigmas_t, sigmas_t)),
                           pred_noise)
    IN  Mul(Sqrt(alpha_cumprod_t_prev), pred_x0) + pred_dir_xt + Mul(sigmas_t, n)

\* The start of sample_ddim and sample_ddim_sequence (lines 171-183,
\* 247-261): the condition test, the timestep sequences, the initial draw.
DdimBegin(name, a) ==
    IF BadCondition(a)
    THEN Raise(name, a)
    ELSE IF ddim_c = 0
    THEN \* range() arg 3 must not be zero
         Raise(name, a)
    ELSE \E n \in NoiseVals :
           /\ op' = name /\ pc' = "loop" /\ args' = a
           /\ x' = n
           /\ ans' = IF name = "sample_ddim_sequence" THEN <<n>> ELSE <<>>
           /\ i' = ddim_timesteps - 1
           /\ trace' = [NoTrace EXCEPT !.randn = 1]
           /\ UNCHANGED <<ret>>

\* One iteration of the DDIM loop (lines 189-239, 267-315) for the loop
\* variable i.
DdimIteration ==
    LET t      == ddim_timestep_seq[i + 1]
        prev_t == ddim_timestep_prev_seq[i + 1]
    IN  IF ~InRange(buffers.alphas_cumprod, t) \/ ~InRange(buffers.alphas_cumprod, prev_t)
        THEN \* gather: index out of range
             /\ pc' = "error"
             /\ trace' = [trace EXCEPT !.ts = Append(@, t), !.prevs = Append(@, prev_t)]
             /\ UNCHANGED <<x, i, ans>>
        ELSE LET pred_noise == Net(Weight(args.use_ema), x, t, args.y)
                 tr == [trace EXCEPT !.ts = Append(@, t), !.prevs = Append(@, prev_t),
                                     !.net = @ + 1, !.randn = @ + 1]
             IN  \E n \in NoiseVals :
                   LET x_prev == DdimUpdate(x, t, prev_t, pred_noise, n, args.clip_denoised)
                   IN  IF args.fix_indices = None
                       THEN /\ x' = x_prev
                            /\ ans' = IF op = "sample_ddim_sequence" THEN Append(ans, x_prev) ELSE ans
                            /\ i' = i - 1
                            /\ trace' = [tr EXCEPT !.iters = @ + 1]
                            /\ pc' = pc
                       ELSE IF args.gt = None \/ ~InRange(buffers.sqrt_alphas_cumprod, t - 1)
                       THEN \* torch.randn_like(None); gather out of range
                            /\ pc' = "error"
                            /\ trace' = tr
                            /\ UNCHANGED <<x, i, ans>>
                       ELSE \E m \in NoiseVals :
                              LET gt_repaint == perturb_x(args.gt[1], t - 1, m)
                              IN  /\ x' = IF args.fix_indices[1] THEN gt_repaint ELSE x_prev
                                  /\ ans' = ans
                                  /\ i' = i - 1
                                  /\ trace' = [tr EXCEPT !.iters = @ + 1, !.randn = @ + 1,
                                                         !.reps = Append(@, t - 1)]
                                  /\ pc' = pc

\* sample_ddim: entry
ddim_begin ==
    /\ op = "idle"
    /\ \E a \in DdimArgs : DdimBegin("sample_ddim", a)
    /\ last' = None
    /\ UNCHANGED <<objVars, ema_branch, fitVars>>

\* sample_ddim: one iteration
ddim_step ==
    /\ op = "sample_ddim" /\ pc = "loop" /\ i >= 0
    /\ DdimIteration
    /\ UNCHANGED <<op, args, ret, last, objVars, ema_branch, fitVars>>

\* sample_ddim: return x (line 241)
ddim_return ==
    /\ op = "sample_ddim" /\ pc = "loop" /\ i < 0
    /\ ret' = Some(x)
    /\ pc' = "done"
    /\ UNCHANGED <<op, args, x, i, ans, trace, last, objVars, ema_branch, fitVars>>

\* sample_ddim_sequence: entry
ddim_sequence_begin ==
    /\ op = "idle"
    /\ \E a \in DdimSeqArgs : DdimBegin("sample_ddim_sequence", a)
    /\ last' = None
    /\ UNCHANGED <<objVars, ema_branch, fitVars>>

\* sample_ddim_sequence: one iteration
ddim_sequence_step ==
    /\ op = "sample_ddim_sequence" /\ pc = "loop" /\ i >= 0
    /\ DdimIteration
    /\ UNCHANGED <<op, args, ret, last, objVars, ema_branch, fitVars>>

\* sample_ddim_sequence: return ans (line 317)
ddim_sequence_return ==
    /\ op = "sample_ddim_sequence" /\ pc = "loop" /\ i < 0
    /\ ret' = Some(ans)
    /\ pc' = "done"
    /\ UNCHANGED <<op, args, x, i, ans, trace, last, objVars, ema_branch, fitVars>>

\* ----------------------------------------------------- the caller, Spec

\* The caller takes the result (or the exception) and goes on.  It keeps the
\* result of a completed sample call, with the call's arguments and draws,
\* until the object is next updated or another method than
\* sample_diffusion_sequence is called.
Continue ==
    /\ pc \in {"done", "error"}
    /\ last' = IF op = "sample" /\ pc = "done"
               THEN Some([args |-> args, draws |-> trace.draws, value |-> ret[1]])
               ELSE None
    /\ op' = "idle" /\ pc' = "idle" /\ args' = NoArgs /\ x' = 0 /\ i' = 0
    /\ ans' = <<>> /\ ret' = None /\ trace' = NoTrace
    /\ UNCHANGED <<objVars, ema_branch, fitVars>>

UpdateEmaBetweenCalls == update_ema(MaxStepCall)

Init ==
    /\ InitObj({0}, {1}, {1}, 1..MaxT, 1..MaxT)
    /\ CallIdle
    /\ FitIdle

Next ==
    \/ Train
    \/ UpdateEmaBetweenCalls
    \/ sample_begin \/ sample_step \/ sample_return
    \/ sequence_begin \/ sequence_step \/ sequence_return
    \/ ddim_begin \/ ddim_step \/ ddim_return
    \/ ddim_sequence_begin \/ ddim_sequence_step \/ ddim_sequence_return
    \/ Continue

\* The diffusion object: training steps, update_ema and the sampling calls.
Spec == Init /\ [][Next]_vars

\* ====================================================================
\* CSTLayer and Fit_airfoil (dataset/parsec_direct_n15.py)
\* ====================================================================

\* The unit of the geometry: coordinates are stored in steps of 1e-4, the
\* step of the dense grid.
GS == 10 * 10 * 10 * 10

GMul(a, b) == FMul(a, b, GS)
GSqrt(a)   == Isqrt(a * GS)

\* n_x = 129 points per surface, n_cst = 12 (line 126, 127)
N_X   == 129
N_CST == 12
\* n1 = 0.5 (as N1_TWICE / 2) and n2 = 1.0, the defaults of CSTLayer
N1_TWICE == 1
N2       == 1
\* np.arange(0, 1.001, 0.0001), in units of 1e-4
ARANGE_START == 0
ARANGE_STOP  == 10010
ARANGE_STEP  == 1
\* the stations read off the dense curves: yu[400], yu[2500], yu[6000]
IDX_T4  == 400
IDX_T25 == 2500
IDX_T60 == 6000
\* initial_guess = (0.0025, 0, ...), in units of 1e-4
INITIAL_XC == 25
\* points = data[126:131, :]
LE_FROM == 126
LE_TO   == 131

RECURSIVE Factorial(_)
Factorial(n) == IF n <= 1 THEN 1 ELSE n * Factorial(n - 1)

\* b ** m for an integer m >= 0
RECURSIVE IPow(_, _)
IPow(b, m) == IF m = 0 THEN GS ELSE GMul(IPow(b, m - 1), b)

\* b ** (e2 / 2) for b >= 0
HalfPow(b, e2) ==
    IF e2 % 2 = 0 THEN IPow(b, e2 \div 2) ELSE GMul(GSqrt(b), IPow(b, e2 \div 2))

\* <<b ** 0, b ** 1, ..., b ** m>>
RECURSIVE Powers(_, _)
Powers(b, m) ==
    IF m = 0 THEN <<GS>>
    ELSE LET p == Powers(b, m - 1) IN Append(p, GMul(p[m], b))

\* K, the k of A0_matrix: factorial(n) / factorial(r) / factorial(n - r), r = 0..n,
\* at index r + 1
RECURSIVE BinomialsFrom(_)
BinomialsFrom(r) ==
    IF r > N_CST THEN <<>>
    ELSE <<(Factorial(N_CST) \div Factorial(r)) \div Factorial(N_CST - r)>>
         \o BinomialsFrom(r + 1)
K == BinomialsFrom(0)

\* One row of A0_matrix, column r at index r + 1:
\* k[r] * x ** (n1 + r) * (1 - x) ** (n + n2 - r)
A0_row(xx) ==
    LET xn1 == HalfPow(xx, N1_TWICE)
        xp  == Powers(xx, N_CST)
        qp  == Powers(GS - xx, N_CST + N2)
    IN  SubSeq([r \in 1..(N_CST + 1) |->
                   GMul(K[r] * GMul(xn1, xp[r]), qp[N_CST + N2 - (r - 1) + 1])],
               1, N_CST + 1)

\* CSTLayer.A0_matrix, for the stations x_coords
A0_matrix(x_coords) ==
    SubSeq([j \in 1..Len(x_coords) |-> A0_row(x_coords[j])], 1, Len(x_coords))

RECURSIVE DotFrom(_, _, _)
DotFrom(row, c, r) ==
    IF r > N_CST + 1 THEN 0 ELSE GMul(row[r], c[r]) + DotFrom(row, c, r + 1)

\* A0.dot(c): one row
Dot(row, c) == DotFrom(row, c, 1)

\* The dense curves (lines 130, 131):
\* yu = cst2.A0.dot(au) + cst2.x_coords * te, yl = cst2.A0.dot(al) - cst2.x_coords * te
Reconstruct(A0, stations, c, te) ==
    SubSeq([j \in 1..Len(stations) |-> Dot(A0[j], c) + GMul(stations[j], te)],
           1, Len(stations))

\* np.arange(start, stop, step): ceil((stop - start) / step) stations
arange(start, stop, stride) ==
    LET n == (stop - start + stride - 1) \div stride
    IN  SubSeq([j \in 1..n |-> start + (j - 1) * stride], 1, n)

\* x2 of get_parsec_n15 (line 128)
x2 == arange(ARANGE_START, ARANGE_STOP, ARANGE_STEP)

\* cst2 = CSTLayer(x_coords=x2) (line 129): its A0
cst2_A0 == A0_matrix(x2)

\* np.argmax, np.argmin of a sequence (the first index on ties)
RECURSIVE ArgMaxIn(_, _, _)
ArgMaxIn(f, lo, hi) ==
    IF lo = hi THEN lo
    ELSE LET mid == (lo + hi) \div 2
             a   == ArgMaxIn(f, lo, mid)
             b   == ArgMaxIn(f, mid + 1, hi)
         IN  IF f[a] >= f[b] THEN a ELSE b

RECURSIVE ArgMinIn(_, _, _)
ArgMinIn(f, lo, hi) ==
    IF lo = hi THEN lo
    ELSE LET mid == (lo + hi) \div 2
             a   == ArgMinIn(f, lo, mid)
             b   == ArgMinIn(f, mid + 1, hi)
         IN  IF f[a] <= f[b] THEN a ELSE b

argmax(f) == ArgMaxIn(f, 1, Len(f))
argmin(f) == ArgMinIn(f, 1, Len(f))

\* ------------------------------------------------------ slope and angle

\* pi, in units of 1e-4
PI == 31416

\* A float that may not be finite: cls is "finite", "inf", "-inf" or "nan".
Finite(v) == [cls |-> "finite", v |-> v]
NonFinite(c) == [cls |-> c, v |-> 0]

\* a / b of two numpy float64 scalars: a zero divisor gives inf, -inf or nan
\* (with a RuntimeWarning), not an exception.
NpDivide(a, b) ==
    IF b # 0 THEN Finite(FDiv(a, b, GS))
    ELSE IF a > 0 THEN NonFinite("inf")
    ELSE IF a < 0 THEN NonFinite("-inf")
    ELSE NonFinite("nan")

\* atan on [0, 1]: (pi/4) a + 0.273 a (1 - a), within 0.004 rad
AtanUnit(a) == GMul(PI \div 4, a) + GMul(GMul(2730, a), GS - a)

\* math.atan
atan(a) ==
    CASE a.cls = "nan"  -> NonFinite("nan")
      [] a.cls = "inf"  -> Finite(PI \div 2)
      [] a.cls = "-inf" -> Finite(-(PI \div 2))
      [] OTHER ->
           LET m == Abs(a.v)
               r == IF m <= GS THEN AtanUnit(m) ELSE PI \div 2 - AtanUnit(FDiv(GS, m, GS))
           IN  Finite(Sgn(a.v) * r)

\* math.degrees, to a hundredth of a degree
degrees(a) ==
    IF a.cls = "nan" THEN a ELSE Finite(Sgn(a.v) * (((Abs(a.v) * 18000) \div PI) * 100))

\* ---------------------------------------------------------------- inputs

\* data[:, 0] and data[:, 1]
Xs(rows) == SubSeq([k \in 1..Len(rows) |-> rows[k][1]], 1, Len(rows))
Ys(rows) == SubSeq([k \in 1..Len(rows) |-> rows[k][2]], 1, Len(rows))

\* s[:n] and s[n:] and s[::-1] of Python
Take(s, n) == SubSeq(s, 1, IF n < Len(s) THEN n ELSE Len(s))
Drop(s, n) == SubSeq(s, n + 1, Len(s))
Reverse(s) == SubSeq([k \in 1..Len(s) |-> s[Len(s) + 1 - k]], 1, Len(s))

\* Coefficient vectors of the model: all n_cst + 1 coefficients equal to c
\* (the curve c * sqrt(x) * (1 - x)).
CoefVals   == {-2000, -1000, 0, 1000, 2000}
CoefFamily == {[r \in 1..(N_CST + 1) |-> c] : c \in CoefVals}

\* Stations of one surface, leading edge first: uniform, or with the last
\* two stations both at the trailing edge (a vertical trailing-edge base).
UniformGrid == SubSeq([j \in 1..N_X |-> ((j - 1) * GS) \div (N_X - 1)], 1, N_X)
BluntGrid   == [j \in 1..N_X |-> IF j = N_X - 1 THEN GS ELSE UniformGrid[j]]
\* Another clustering of the stations (x squared), same end points.
SquaredGrid == [j \in 1..N_X |-> GMul(UniformGrid[j], UniformGrid[j])]

\* The ordinates A0 c + x * yte at the stations xs.
Surface(xs, c, yte) == Reconstruct(A0_matrix(xs), xs, [r \in 1..(N_CST + 1) |-> c], yte)

\* An airfoil of 2 * N_X - 1 rows, upper trailing edge -> leading edge ->
\* lower trailing edge, with the abscissas xu and xl (leading edge first);
\* lift raises the second row's ordinate.  The ordinates are those of the
\* curves at xu, the stations the fit uses, so that the least-squares problem
\* has an exact solution in CoefFamily.
Airfoil(xu, xl, cu, cl, yute, ylte, lift) ==
    LET yu == Surface(xu, cu, yute)
        yl == Surface(xu, cl, ylte)
    IN  SubSeq([k \in 1..(2 * N_X - 1) |->
                   IF k <= N_X
                   THEN <<xu[N_X + 1 - k], yu[N_X + 1 - k] + (IF k = 2 THEN lift ELSE 0)>>
                   ELSE <<xl[k - N_X + 1], yl[k - N_X + 1]>>], 1, 2 * N_X - 1)

\* rows cut to n rows, or extended with copies of the last row.
Resize(rows, n) ==
    SubSeq([k \in 1..n |-> IF k <= Len(rows) THEN rows[k] ELSE rows[Len(rows)]], 1, n)

\* (cu, cl, yu[last], yl[last]) of the airfoils of the model.
Shapes ==
    { <<1000, -1000, 0, 0>>, <<1000, -1000, 20, -20>>, <<2000, -1000, 20, -20>>,
      <<1000, -1000, 20, 0>>, <<2000, 0, 40, 20>>, <<0, 0, 20, -20>>, <<0, 0, 0, 0>>,
      <<2000, -2000, 0, 0>>, <<2000, 1000, 20, -20>> }

\* Lengths other than 2 * N_X - 1.
MaxExtra == 1
OtherLengths ==
    ((0..2) \cup ((N_X - 1)..(N_X + MaxExtra)) \cup ((2 * N_X - 2)..(2 * N_X - 1 + MaxExtra)))
    \ {2 * N_X - 1}

Inputs ==
    {Airfoil(UniformGrid, UniformGrid, sh[1], sh[2], sh[3], sh[4], 0) : sh \in Shapes}
    \cup {Airfoil(UniformGrid, SquaredGrid, sh[1], sh[2], sh[3], sh[4], 0) :
            sh \in {<<1000, -1000, 20, -20>>}}
    \cup {Airfoil(BluntGrid, BluntGrid, sh[1], sh[2], sh[3], sh[4], lift) :
            sh \in {<<1000, -1000, 20, -20>>}, lift \in {-10, 0, 10}}
    \cup {Resize(Airfoil(UniformGrid, UniformGrid, sh[1], sh[2], sh[3], sh[4], 0), n) :
            sh \in {<<1000, -1000, 20, -20>>, <<0, 0, 0, 0>>}, n \in OtherLengths}

\* ------------------------------------------------------------ CSTLayer

\* v[lo] + ... + v[hi]
RECURSIVE SumIn(_, _, _)
SumIn(v, lo, hi) ==
    IF lo > hi THEN 0
    ELSE IF lo = hi THEN v[lo]
    ELSE SumIn(v, lo, (lo + hi) \div 2) + SumIn(v, (lo + hi) \div 2 + 1, hi)

\* The squared residual |A c - b|^2.
Residual(A, c, b) ==
    SumIn([j \in 1..Len(b) |-> LET d == Dot(A[j], c) - b[j] IN d * d], 1, Len(b))

\* numpy.linalg.lstsq(A, b)[0]: the coefficients of least squared residual,
\* searched in CoefFamily.
lstsq(A, b) ==
    LET res == {<<c, Residual(A, c, b)>> : c \in CoefFamily}
    IN  (CHOOSE p \in res : \A q \in res : p[2] <= q[2])[1]

\* a - x_coords * s with numpy broadcasting: equal lengths, or one of them 1.
Broadcastable(m, n) == m = n \/ m = 1 \/ n = 1
Detrend(a, x_coords, s) ==
    LET n == IF Len(a) > Len(x_coords) THEN Len(a) ELSE Len(x_coords)
    IN  SubSeq([j \in 1..n |->
                   (IF Len(a) = 1 THEN a[1] ELSE a[j])
                   - GMul(IF Len(x_coords) = 1 THEN x_coords[1] ELSE x_coords[j], s)], 1, n)

\* CSTLayer.fit_CST(y_coords, n_x) on the stations x_coords: the outcome is
\* an error, or au, al, te.
fit_CST(x_coords, y_coords, n_x) ==
    LET A0 == A0_matrix(x_coords)
        yu == Reverse(Take(y_coords, n_x))
        yl == Drop(y_coords, n_x - 1)
    IN  IF Len(yu) = 0 \/ Len(yl) = 0
        THEN [error |-> "IndexError"]               \* yu[-1], yl[-1]
        ELSE IF ~Broadcastable(Len(yu), Len(x_coords)) \/ ~Broadcastable(Len(yl), Len(x_coords))
        THEN [error |-> "ValueError"]               \* operands could not be broadcast
        ELSE [error |-> "",
              te |-> (yu[Len(yu)] - yl[Len(yl)]) \div 2,
              au |-> lstsq(A0, Detrend(yu, x_coords, yu[Len(yu)])),
              al |-> lstsq(A0, Detrend(yl, x_coords, yl[Len(yl)])),
              removed_u |-> yu[Len(yu)],
              removed_l |-> yl[Len(yl)]]

\* ---------------------------------------------------------- Fit_airfoil

\* Fit_airfoil(data): the object is created with an input.
FitInit ==
    /\ data \in Inputs
    /\ fpc = "new"
    /\ parsec_features = None
    /\ fit = [error |-> ""]

\* get_parsec_n15, lines 117-124: the slope of the first two rows, as an angle
\* in degrees.
get_parsec_angle ==
    /\ fpc = "new"
    /\ IF Len(data) < 2
       THEN \* data[1, 1]: index out of bounds
            /\ fpc' = "error"
            /\ fit' = [error |-> "IndexError"]
       ELSE LET a == NpDivide(data[1][2] - data[2][2], data[1][1] - data[2][1])
            IN  /\ fpc' = "angled"
                /\ fit' = [error |-> "", angle |-> degrees(atan(a))]
    /\ UNCHANGED <<data, parsec_features, objVars, ema_branch, callVars>>

\* get_parsec_n15, lines 126-127: the CST fit on the first n_x abscissas.
get_parsec_fit ==
    /\ fpc = "angled"
    /\ LET cst == fit_CST(Reverse(Take(Xs(data), N_X)), Ys(data), N_X)
       IN  IF cst.error # ""
           THEN /\ fpc' = "error"
                /\ fit' = [error |-> cst.error]
           ELSE /\ fpc' = "fitted"
                /\ fit' = [error |-> "", angle |-> fit.angle, au |-> cst.au, al |-> cst.al,
                           te |-> cst.te, removed_u |-> cst.removed_u,
                           removed_l |-> cst.removed_l]
    /\ UNCHANGED <<data, parsec_features, objVars, ema_branch, callVars>>

\* get_parsec_n15, lines 128-131: the dense grid and the two curves.
get_parsec_reconstruct ==
    /\ fpc = "fitted"
    /\ fpc' = "reconstructed"
    /\ fit' = [error |-> "", angle |-> fit.angle, au |-> fit.au, al |-> fit.al,
               te |-> fit.te, removed_u |-> fit.removed_u, removed_l |-> fit.removed_l,
               x2 |-> x2,
               yu |-> Reconstruct(cst2_A0, x2, fit.au, fit.te),
               yl |-> Reconstruct(cst2_A0, x2, fit.al, -fit.te)]
    /\ UNCHANGED <<data, parsec_features, objVars, ema_branch, callVars>>

\* np.std of a sequence of numbers
std(v) ==
    LET mean == SumIn(v, 1, Len(v)) \div Len(v)
        dev2 == [k \in 1..Len(v) |-> (v[k] - mean) * (v[k] - mean)]
    IN  Isqrt(SumIn(dev2, 1, Len(v)) \div Len(v))

\* Fit_airfoil.objective
objective(params, xdata, ydata) ==
    LET d2 == [k \in 1..Len(xdata) |->
                 LET dist == Isqrt((xdata[k] - params[1]) * (xdata[k] - params[1])
                                   + (ydata[k] - params[2]) * (ydata[k] - params[2]))
                 IN  (dist - params[3]) * (dist - params[3])]
    IN  SumIn(d2, 1, Len(xdata))

\* scipy.optimize.minimize(objective, initial_guess, method="Nelder-Mead").x:
\* the best of the initial guess and of the circles through the origin
\* centred on the chord line.
Radii == {INITIAL_XC, 2 * INITIAL_XC, 4 * INITIAL_XC, 8 * INITIAL_XC, 16 * INITIAL_XC}
minimize(initial_guess, xdata, ydata) ==
    LET cands == {initial_guess} \cup {<<r, 0, r>> : r \in Radii}
        val   == {<<c, objective(c, xdata, ydata)>> : c \in cands}
    IN  (CHOOSE p \in val : \A q \in val : p[2] <= q[2])[1]

\* The extrema with yr, xr read off the lowest point of the lower curve,
\* mirrored: yr = -min(yl), xr = x2[argmin(yl)].
Extrema_RearFromMin(stations, yu, yl) ==
    [ yumax |-> yu[argmax(yu)],
      ylmax |-> yl[argmin(yl)],
      xumax |-> stations[argmax(yu)],
      xlmax |-> stations[argmin(yl)],
      yr    |-> -yl[argmin(yl)],
      xr    |-> stations[argmin(yl)] ]

\* The extrema of lines 140-145: yumax, ylmax, xumax, xlmax, yr, xr.
Extrema(stations, yu, yl) ==
    [ yumax |-> yu[argmax(yu)],
      ylmax |-> yl[argmin(yl)],
      xumax |-> stations[argmax(yu)],
      xlmax |-> stations[argmin(yl)],
      yr    |-> yl[argmax(yl)],
      xr    |-> stations[argmax(yl)] ]

\* get_parsec_n15, lines 132-178: the samples, the extrema, the circle fit
\* and the feature vector
\* [rf, t4u, t4l, xumax, yumax, xlmax, ylmax, t25u, t25l, angle, te1, xr, yr, t60u, t60l].
get_parsec_features ==
    /\ fpc = "reconstructed"
    /\ LET e      == Extrema(fit.x2, fit.yu, fit.yl)
           points == SubSeq(data, LE_FROM + 1, IF LE_TO < Len(data) THEN LE_TO ELSE Len(data))
           xdata  == Xs(points)
           ydata  == Ys(points)
           guess  == <<INITIAL_XC, 0, std(xdata \o ydata)>>
           rf     == minimize(guess, xdata, ydata)[3]
       IN  parsec_features' =
                Some(<< rf, fit.yu[IDX_T4 + 1], fit.yl[IDX_T4 + 1], e.xumax, e.yumax,
                        e.xlmax, e.ylmax, fit.yu[IDX_T25 + 1], fit.yl[IDX_T25 + 1],
                        fit.angle, fit.te, e.xr, e.yr,
                        fit.yu[IDX_T60 + 1], fit.yl[IDX_T60 + 1] >>)
    /\ fpc' = "done"
    /\ UNCHANGED <<data, fit, objVars, ema_branch, callVars>>

InitFit ==
    /\ InitObj({0}, {0}, {1}, {1}, {1})
    /\ ddim_eta = 0
    /\ CallIdle
    /\ FitInit

NextFit ==
    get_parsec_angle \/ get_parsec_fit \/ get_parsec_reconstruct \/ get_parsec_features

\* Fit_airfoil on every input of the model.
SpecFit == InitFit /\ [][NextFit]_vars

\* ------------------------------------------------------- C1 (update_ema)

\* C1, as stated: on every update_ema call the shadow becomes
\* decay*shadow + (1-decay)*live when the new step count is a multiple of
\* update_rate and exceeds ema_start, and is hard-copied from the live model
\* on every other call.
C1_AsClaimed ==
    [][ step' = step + 1 =>
          IF step' % ema_update_rate = 0 /\ step' > ema_start
          THEN ema_model' = (ema_model * DECAY_NUM + (DECAY_DEN - DECAY_NUM) * model) \div DECAY_DEN
          ELSE ema_model' = model ]_vars

\* C1, amended: the shadow becomes decay*shadow + (1-decay)*live exactly on
\* the calls whose step count is a multiple of update_rate and is at least
\* ema_start; it is hard-copied from the live model on the multiples of
\* update_rate below ema_start; on every other call it is left as it was.
C1_EmaSchedule ==
    [][ step' = step + 1 =>
          /\ (step' % ema_update_rate = 0 /\ step' >= ema_start) =>
                /\ ema_model' = (ema_model * DECAY_NUM + (DECAY_DEN - DECAY_NUM) * model) \div DECAY_DEN
                /\ ema_branch' = "update_model_average"
          /\ (step' % ema_update_rate = 0 /\ step' < ema_start) =>
                /\ ema_model' = model
                /\ ema_branch' = "load_state_dict"
          /\ (step' % ema_update_rate # 0) =>
                /\ ema_model' = ema_model
                /\ ema_branch' = "skip" ]_vars

\* An averaging update on the call whose step count equals ema_start, with a
\* shadow that differs from the live weight.
C1_Witness ==
    /\ ema_branch = "update_model_average"
    /\ step = ema_start
    /\ step > 0
    /\ ema_model # model

\* ------------------------------------------------ C2 (condition check)

\* C2: in each of the four sampling methods, a condition y that is given and
\* whose length differs from batch_size ends the call in an error before
\* anything is computed: no random draw, no denoiser call, no loop
\* iteration, no lookup, and nothing is returned.
C2_FailFast ==
    (op \in SamplingOps /\ args.y # None /\ args.batch_size # Len(args.y[1])) =>
        /\ pc = "error"
        /\ trace.randn = 0 /\ trace.net = 0 /\ trace.iters = 0
        /\ trace.ts = <<>> /\ trace.draws = <<>>
        /\ ans = <<>>
        /\ ret = None

\* A sample_ddim_sequence call with a condition longer than the batch has
\* ended in the error.
C2_Witness ==
    /\ op = "sample_ddim_sequence"
    /\ args.y # None /\ args.batch_size < Len(args.y[1])
    /\ pc = "error"

\* ------------------------------------------- C7 (DDIM with steps = T)

\* The schedule indices of the ancestral loop: T-1, T-2, ..., 0.
AncestralIndices == [k \in 1..num_timesteps |-> num_timesteps - k]

\* C7, as stated: with ddim_timesteps = num_timesteps and eta = 0, a
\* sample_ddim call (valid condition, no repainting) runs to completion,
\* performs T reverse steps and looks the schedule up at the indices of the
\* ancestral loop, T-1 down to 0.
C7_DdimFullStepsIsAncestral ==
    ( /\ op = "sample_ddim"
      /\ ddim_timesteps = num_timesteps /\ ddim_eta = 0
      /\ ~(args.y # None /\ args.batch_size # Len(args.y[1]))
      /\ args.fix_indices = None
      /\ pc \in {"done", "error"} ) =>
        /\ pc = "done"
        /\ trace.iters = num_timesteps
        /\ trace.ts = AncestralIndices

\* ------------------------------------------------ C8 (frame of sampling)

\* C8: no step of a sampling call (entry, loop iteration, return, with or
\* without repainting) changes the live parameters, the shadow parameters,
\* the step counter or the schedule buffers.
C8_SamplingReadOnly ==
    [][ (op \in SamplingOps \/ op' \in SamplingOps) =>
            UNCHANGED <<model, ema_model, step, buffers>> ]_vars

\* A repainting sample_ddim call has completed on an object whose shadow
\* differs from its live weight after an update_ema call.
C8_Witness ==
    /\ op = "sample_ddim" /\ pc = "done"
    /\ args.fix_indices = Some(TRUE)
    /\ step = 1
    /\ model # ema_model

\* ------------------------------------------------ C10 (ancestral loop)

\* The draw the k-th iteration of an ancestral run used (0 for t = 0).
DrawOf(k) == IF num_timesteps - k > 0 THEN trace.draws[k + 1] ELSE 0

\* C10: an ancestral run (sample, sample_diffusion_sequence) performs its
\* denoising steps at t = T-1, T-2, ..., 0, one denoiser call each, adds
\* schedule noise after every step but the one at t = 0, and has done
\* exactly T steps when it returns; sample_diffusion_sequence threads the
\* state (each state is the step applied to the previous one), returns T+1
\* states starting with the initial noise, and its last state is what sample
\* returned for the same arguments, weights and draws.
C10_AncestralLoop ==
    (op \in {"sample", "sample_diffusion_sequence"} /\ pc \in {"loop", "done"}) =>
        /\ trace.ts = [k \in 1..trace.iters |-> num_timesteps - k]
        /\ trace.net = trace.iters
        /\ trace.noised = [k \in 1..trace.iters |-> num_timesteps - k > 0]
        /\ Len(trace.draws) = 1 + Cardinality({k \in 1..trace.iters : num_timesteps - k > 0})
        /\ trace.randn = Len(trace.draws)
        /\ i = num_timesteps - 1 - trace.iters
        /\ (pc = "done") => trace.iters = num_timesteps
        /\ (op = "sample" /\ pc = "done") => ret = Some(x)
        /\ (op = "sample_diffusion_sequence") =>
              /\ Len(ans) = trace.iters + 1
              /\ ans[1] = trace.draws[1]
              /\ \A k \in 1..trace.iters :
                    ans[k + 1] = AncestralStep(ans[k], num_timesteps - k, args, DrawOf(k))
              /\ (pc = "done") =>
                    /\ ret = Some(ans)
                    /\ Len(ret[1]) = num_timesteps + 1
                    /\ (last # None /\ last[1].args = args /\ last[1].draws = trace.draws) =>
                          ret[1][num_timesteps + 1] = last[1].value

\* sample_diffusion_sequence has returned after a sample call with the same
\* arguments and the same draws, on a schedule of at least three steps.
C10_Witness ==
    /\ op = "sample_diffusion_sequence" /\ pc = "done"
    /\ num_timesteps >= 3
    /\ last # None /\ last[1].args = args /\ last[1].draws = trace.draws
    /\ trace.noised[1] /\ ~trace.noised[num_timesteps]

\* ------------------------------------------- the returned feature vector

Returned == fpc = "done" /\ parsec_features # None
Feature(n) == parsec_features[1][n]
F_XUMAX == 4
F_YUMAX == 5
F_XLMAX == 6
F_YLMAX == 7
F_ANGLE == 10
F_XR    == 12
F_YR    == 13

\* -------------------------------------------------- C3 (malformed input)

\* The abscissas of the upper rows, read from the leading edge, are those of
\* the lower rows.
GridsMatch ==
    /\ Len(data) = 2 * N_X - 1
    /\ \A j \in 1..N_X : data[N_X + 1 - j][1] = data[N_X - 1 + j][1]

\* C3, as stated: an input of fewer than 2 * n_x - 1 rows, or whose upper
\* and lower abscissas differ, ends in an error and returns no feature
\* vector; no input of another length than 2 * n_x - 1 returns one.
C3_MalformedInputFails ==
    (Len(data) # 2 * N_X - 1 \/ ~GridsMatch) => (fpc # "done" /\ parsec_features = None)

\* ------------------------------------------------- C4 (vertical slope)

\* C4, as stated: when the first two rows have the same abscissa, the call
\* ends in an error and returns no feature vector with a finite angle.
C4_VerticalSlopeFails ==
    (Len(data) >= 2 /\ data[1][1] = data[2][1] /\ Returned) =>
        Feature(F_ANGLE).cls # "finite"

\* ---------------------------------------------------- C5 (dense grid)

\* C5, as stated: the dense grid has 10,001 stations from 0 to 1, all of
\* them in [0, 1], and the extremum stations of the returned vector lie in
\* [0, 1].
C5_GridOnUnitInterval ==
    /\ fpc \in {"reconstructed", "done"} =>
          /\ Len(fit.x2) = GS + 1
          /\ fit.x2[1] = 0
          /\ fit.x2[Len(fit.x2)] = GS
          /\ \A j \in 1..Len(fit.x2) : fit.x2[j] >= 0 /\ fit.x2[j] <= GS
    /\ Returned =>
          \A n \in {F_XUMAX, F_XLMAX, F_XR} : Feature(n) >= 0 /\ Feature(n) <= GS

\* ----------------------------------------------- C6 (symmetric airfoil)

\* The reconstructed curves are those of a symmetric airfoil: yl = -yu and
\* yu >= 0 at every station, yu = 0 at station 0.
Symmetric ==
    /\ fit.yu[1] = 0
    /\ \A j \in 1..Len(fit.yu) : fit.yl[j] = -fit.yu[j] /\ fit.yu[j] >= 0

\* C6, as stated: for a symmetric airfoil yr = -ylmax and xr = xlmax.
C6_AsClaimed ==
    (Returned /\ Symmetric) =>
        /\ Feature(F_YR) = -Feature(F_YLMAX)
        /\ Feature(F_XR) = Feature(F_XLMAX)

\* C6, amended: for a symmetric airfoil yr = max(yl) = 0 at xr = 0 (the
\* first station), while ylmax = -yumax and xlmax = xumax.
C6_SymmetricFeatures ==
    (Returned /\ Symmetric) =>
        /\ Feature(F_YR) = 0
        /\ Feature(F_XR) = fit.x2[1]
        /\ Feature(F_XR) = 0
        /\ Feature(F_YLMAX) = -Feature(F_YUMAX)
        /\ Feature(F_XLMAX) = Feature(F_XUMAX)

\* A feature vector was returned for a symmetric airfoil of positive
\* thickness.
C6_Witness ==
    /\ Returned /\ Symmetric
    /\ Feature(F_YUMAX) > 0
    /\ Feature(F_XLMAX) > 0

\* ---------------------------------------------- C9 (trailing-edge term)

\* C9, as stated: the slope of the linear term fit_CST removes from each
\* surface is the slope get_parsec_n15 adds back (te above, -te below), and
\* the reconstructed ordinates at station 1 are the input's trailing-edge
\* ordinates yu[last] and yl[last].
C9_TrailingEdgeRoundTrip ==
    /\ fpc \in {"fitted", "reconstructed", "done"} =>
          /\ fit.removed_u = fit.te
          /\ fit.removed_l = -fit.te
    /\ fpc \in {"reconstructed", "done"} =>
          /\ fit.x2[GS + 1] = GS
          /\ fit.yu[GS + 1] = fit.removed_u
          /\ fit.yl[GS + 1] = fit.removed_l

\* --------------------------------------------- C11 (DDIM schedule indices)

\* A DDIM call with a valid condition and, when repainting, a ground truth,
\* on an object with 1 <= ddim_timesteps <= num_timesteps.
DdimCall ==
    /\ op \in {"sample_ddim", "sample_ddim_sequence"}
    /\ ~(args.y # None /\ args.batch_size # Len(args.y[1]))
    /\ args.fix_indices # None => args.gt # None
    /\ 1 <= ddim_timesteps /\ ddim_timesteps <= num_timesteps

\* C11, as stated: for 1 <= S <= T the DDIM loops complete their S
\* iterations; the indices t, prev_t and t - 1 (repainting) they look the
\* length-T tables up at lie in 0..T-1; the indices t decrease strictly and
\* each prev_t is the t of the next iteration, 0 for the last.
C11_DdimIndicesInRange ==
    DdimCall =>
        /\ pc # "error"
        /\ pc = "done" => (trace.iters = ddim_timesteps /\ trace.prevs[trace.iters] = 0)
        /\ \A n \in 1..Len(trace.ts) :
              /\ trace.ts[n] \in 0..(num_timesteps - 1)
              /\ trace.prevs[n] \in 0..(num_timesteps - 1)
              /\ n < Len(trace.ts) =>
                    (trace.ts[n + 1] < trace.ts[n] /\ trace.prevs[n] = trace.ts[n + 1])
        /\ \A n \in 1..Len(trace.reps) : trace.reps[n] \in 0..(num_timesteps - 1)

=============================================================================
